---- MODULE Spec2Model ----
(***************************************************************************)
(* Model of scripts/security_utils.py: the allow-listed subprocess runner  *)
(* (SecureSubprocess.find_executable, SecureSubprocess.run) and the path   *)
(* helpers (validate_file_path, safe_file_write, safe_file_read).          *)
(*                                                                         *)
(* The environment the functions act on is part of the state: a small file *)
(* system with directories, regular files and one symbolic link, the       *)
(* process's working directory, the platform's line separator and the      *)
(* record of the child process spawned by the last call.                   *)
(*                                                                         *)
(* A canonical location is a sequence of names below "/" (<<>> is "/").    *)
(* A path argument is a record [abs, parts]: parts may contain "..".       *)
(***************************************************************************)
EXTENDS Integers, Sequences, FiniteSets, TLC

VARIABLES
    fs,       \* canonical location -> node [kind, data, target]
    cwd,      \* Path.cwd(): canonical location of the working directory
    linesep,  \* os.linesep as written for "\n" by a text-mode file
    call,     \* arguments of the last call
    result,   \* what the last call raised or returned
    trace,    \* the lookups and effects the last call performed, in order
    child,    \* the child process the last call spawned, if any
    touched,  \* locations the last call created, modified or read
    ncalls,   \* number of calls made so far
    pc        \* "idle", or "returned" while the caller holds the last result

vars == <<fs, cwd, linesep, call, result, trace, child, touched, ncalls, pc>>

(***************************************************************************)
(* Bounds of the model.                                                    *)
(***************************************************************************)
MaxCalls == 2

(***************************************************************************)
(* Constants of the program and of its environment.                        *)
(***************************************************************************)
ALLOWED_COMMANDS ==
    {"git", "python", "python3", "pip", "pip3", "pytest", "bandit", "black",
     "ruff", "mypy"}

\* __file__ of the module: <project>/scripts/security_utils.py
ModuleFile == <<"proj", "scripts", "security_utils.py">>

CR == "\r"
LF == "\n"

Parent(p) == IF p = <<>> THEN <<>> ELSE SubSeq(p, 1, Len(p) - 1)

\* Path(__file__).parent.parent
project_root == Parent(Parent(ModuleFile))

\* PurePath.relative_to succeeds iff `root` is a prefix of `p`, part by part
IsRelativeTo(p, root) ==
    /\ Len(root) <= Len(p)
    /\ SubSeq(p, 1, Len(root)) = root

(***************************************************************************)
(* The file system.                                                        *)
(***************************************************************************)
Dir == [kind |-> "dir", data |-> <<>>, target |-> <<>>]
File(d) == [kind |-> "file", data |-> d, target |-> <<>>]
Link(t) == [kind |-> "link", data |-> <<>>, target |-> t]

Exists(f, p) == p \in DOMAIN f
IsDir(f, p) == p \in DOMAIN f /\ f[p].kind = "dir"
IsFile(f, p) == p \in DOMAIN f /\ f[p].kind = "file"

\* f with location p set to node n
Put(f, p, n) == [q \in DOMAIN f \cup {p} |-> IF q = p THEN n ELSE f[q]]

\* The file system at start: the project with its scripts directory, a
\* symbolic link in scripts/ that leaves the project, a directory outside the
\* project holding a file, and the directory on the search path.
InitialFs ==
    LET entries ==
          { <<(<<>>), Dir>>,
            <<(<<"proj">>), Dir>>,
            <<(<<"proj", "scripts">>), Dir>>,
            <<(<<"proj", "scripts", "lnk">>), Link(<<"out">>)>>,
            <<(<<"out">>), Dir>>,
            <<(<<"out", "f">>), File(<<"s">>)>>,
            <<(<<"bin">>), Dir>>,
            <<(<<"bin", "git">>), File(<<"x">>)>>,
            <<(<<"bin", "sh">>), File(<<"x">>)>> }
    IN [p \in {e[1] : e \in entries} |->
           (CHOOSE e \in entries : e[1] = p)[2]]

\* Path.resolve() / the kernel's path walk: ".." steps to the parent of the
\* location reached so far, a symbolic link is replaced by its target, a name
\* that does not exist is appended as it is.
RECURSIVE Walk(_, _, _)
Walk(f, cur, parts) ==
    IF parts = <<>> THEN cur
    ELSE LET h == Head(parts)
             nxt == Append(cur, h)
         IN IF h = ".." THEN Walk(f, Parent(cur), Tail(parts))
            ELSE IF nxt \in DOMAIN f /\ f[nxt].kind = "link"
                 THEN Walk(f, f[nxt].target, Tail(parts))
                 ELSE Walk(f, nxt, Tail(parts))

\* Path(path).resolve(): relative paths start at the working directory
Resolve(f, c, path) == Walk(f, IF path.abs THEN <<>> ELSE c, path.parts)

\* where the kernel finds an absolute path handed to open() or mkdir()
OSLocate(f, p) == Walk(f, <<>>, p)

(***************************************************************************)
(* Outcomes: an exception (exc, msg) or a normal return (exc = "none").    *)
(***************************************************************************)
NoProc == [args |-> <<>>, returncode |-> 0, captured |-> FALSE]

Raise(e, m) ==
    [exc |-> e, msg |-> m, path |-> <<>>, text |-> <<>>, proc |-> NoProc]
ReturnNone == Raise("none", "")
ReturnPath(p) == [ReturnNone EXCEPT !.path = p]
ReturnText(t) == [ReturnNone EXCEPT !.text = t]
ReturnProc(r) == [ReturnNone EXCEPT !.proc = r]

\* Variants of validate_file_path with a plausible defect.
\* os.path.abspath in place of resolve(): ".." is collapsed, links are kept
NoLinks == [p \in {<<>>} |-> Dir]

validate_file_path_Abspath(f, c, path, must_exist) ==
    LET resolved_path ==
            Walk(NoLinks, IF path.abs THEN <<>> ELSE c, path.parts)
    IN IF /\ ~IsRelativeTo(resolved_path, c)
          /\ ~IsRelativeTo(resolved_path, project_root)
       THEN Raise("ValueError", "outside the project directory")
       ELSE IF must_exist /\ ~Exists(f, OSLocate(f, resolved_path))
            THEN Raise("FileNotFoundError", "path does not exist")
            ELSE ReturnPath(resolved_path)

\* the containment check left out
validate_file_path_NoBoundary(f, c, path, must_exist) ==
    LET resolved_path == Resolve(f, c, path)
    IN IF must_exist /\ ~Exists(f, resolved_path)
       THEN Raise("FileNotFoundError", "path does not exist")
       ELSE ReturnPath(resolved_path)

(***************************************************************************)
(* validate_file_path                                                      *)
(***************************************************************************)
validate_file_path(f, c, path, must_exist) ==
    LET resolved_path == Resolve(f, c, path)
    IN IF /\ ~IsRelativeTo(resolved_path, c)
          /\ ~IsRelativeTo(resolved_path, project_root)
       THEN Raise("ValueError", "outside the project directory")
       ELSE IF must_exist /\ ~Exists(f, resolved_path)
            THEN Raise("FileNotFoundError", "path does not exist")
            ELSE ReturnPath(resolved_path)

(***************************************************************************)
(* Text-mode files (open(..., encoding="utf-8"), newline=None).            *)
(***************************************************************************)
\* writing: every "\n" of the string is stored as os.linesep
RECURSIVE TranslateOut(_, _)
TranslateOut(content, ls) ==
    IF content = <<>> THEN <<>>
    ELSE (IF Head(content) = LF THEN ls ELSE <<Head(content)>>)
             \o TranslateOut(Tail(content), ls)

\* reading: "\r\n" and a lone "\r" are both returned as "\n"
RECURSIVE UniversalNewlines(_)
UniversalNewlines(data) ==
    IF data = <<>> THEN <<>>
    ELSE IF Head(data) = CR
         THEN IF Len(data) > 1 /\ data[2] = LF
              THEN <<LF>> \o UniversalNewlines(SubSeq(data, 3, Len(data)))
              ELSE <<LF>> \o UniversalNewlines(Tail(data))
         ELSE <<Head(data)>> \o UniversalNewlines(Tail(data))

\* Path.mkdir(parents=True, exist_ok=True) on directory d
RECURSIVE MkdirParents(_, _)
MkdirParents(f, d) ==
    IF IsDir(f, d) THEN [fs |-> f, exc |-> "none", made |-> {}]
    ELSE IF Exists(f, d) THEN [fs |-> f, exc |-> "FileExistsError", made |-> {}]
    ELSE IF IsDir(f, Parent(d))
         THEN [fs |-> Put(f, d, Dir), exc |-> "none", made |-> {d}]
    ELSE IF Exists(f, Parent(d))
         THEN [fs |-> f, exc |-> "NotADirectoryError", made |-> {}]
    ELSE LET up == MkdirParents(f, Parent(d))
         IN IF up.exc # "none" THEN up
            ELSE [fs |-> Put(up.fs, d, Dir), exc |-> "none",
                  made |-> up.made \cup {d}]

\* open(file_path, mode) followed by f.write(content), mode "w" or "a"
OpenAndWrite(f, ls, loc, content, mode) ==
    IF IsDir(f, loc) THEN [fs |-> f, exc |-> "IsADirectoryError", made |-> {}]
    ELSE IF ~IsDir(f, Parent(loc))
         THEN [fs |-> f, exc |-> "FileNotFoundError", made |-> {}]
    ELSE LET old == IF mode = "a" /\ IsFile(f, loc) THEN f[loc].data ELSE <<>>
         IN [fs |-> Put(f, loc, File(old \o TranslateOut(content, ls))),
             exc |-> "none", made |-> {loc}]

(***************************************************************************)
(* safe_file_write, safe_file_read                                         *)
(***************************************************************************)
\* Variant of safe_file_write with a plausible defect: the parent directory
\* is created before the path is validated
safe_file_write_MkdirFirst(f, c, ls, path, content, mode) ==
    LET mk == MkdirParents(f, Parent(Resolve(f, c, path)))
        v == validate_file_path(mk.fs, c, path, FALSE)
    IN IF mk.exc # "none"
       THEN [fs |-> mk.fs, result |-> Raise(mk.exc, "io"),
             touched |-> mk.made, trace |-> <<"mkdir">>]
       ELSE IF v.exc # "none"
       THEN [fs |-> mk.fs, result |-> v, touched |-> mk.made,
             trace |-> <<"mkdir", "validate">>]
       ELSE LET w == OpenAndWrite(mk.fs, ls, OSLocate(mk.fs, v.path),
                                  content, mode)
            IN [fs |-> w.fs,
                result |-> IF w.exc # "none" THEN Raise(w.exc, "io")
                           ELSE ReturnNone,
                touched |-> mk.made \cup w.made,
                trace |-> <<"mkdir", "validate", "open">>]

safe_file_write(f, c, ls, path, content, mode) ==
    LET v == validate_file_path(f, c, path, FALSE)
    IN IF v.exc # "none"
       THEN [fs |-> f, result |-> v, touched |-> {}, trace |-> <<"validate">>]
       ELSE LET file_path == v.path
                mk == MkdirParents(f, OSLocate(f, Parent(file_path)))
            IN IF mk.exc # "none"
               THEN [fs |-> mk.fs, result |-> Raise(mk.exc, "io"),
                     touched |-> mk.made, trace |-> <<"validate", "mkdir">>]
               ELSE LET w == OpenAndWrite(mk.fs, ls, OSLocate(mk.fs, file_path),
                                          content, mode)
                    IN [fs |-> w.fs,
                        result |-> IF w.exc # "none" THEN Raise(w.exc, "io")
                                   ELSE ReturnNone,
                        touched |-> mk.made \cup w.made,
                        trace |-> <<"validate", "mkdir", "open">>]

safe_file_read(f, c, path) ==
    LET v == validate_file_path(f, c, path, TRUE)
    IN IF v.exc # "none"
       THEN [result |-> v, touched |-> {}, trace |-> <<"validate">>]
       ELSE LET loc == OSLocate(f, v.path)
            IN IF ~IsFile(f, loc)
               THEN [result |-> Raise("IsADirectoryError", "io"),
                     touched |-> {}, trace |-> <<"validate", "open">>]
               ELSE [result |-> ReturnText(UniversalNewlines(f[loc].data)),
                     touched |-> {loc}, trace |-> <<"validate", "open">>]

(***************************************************************************)
(* SecureSubprocess                                                        *)
(***************************************************************************)
\* the directories of PATH, in order
SearchPath == << <<"bin">> >>

\* shutil.which(name): the first executable of that name on the search path
RECURSIVE Which(_, _, _)
Which(f, dirs, name) ==
    IF dirs = <<>> THEN [found |-> FALSE, path |-> <<>>]
    ELSE IF IsFile(f, OSLocate(f, Append(Head(dirs), name)))
         THEN [found |-> TRUE, path |-> Append(Head(dirs), name)]
         ELSE Which(f, Tail(dirs), name)

\* Variant of find_executable with a plausible defect: no allow-list test
find_executable_NoAllowCheck(f, command) ==
    LET full_path == Which(f, SearchPath, command)
    IN IF ~full_path.found
       THEN [result |-> Raise("FileNotFoundError", "not found in PATH"),
             trace |-> <<"which">>]
       ELSE [result |-> ReturnPath(full_path.path), trace |-> <<"which">>]

find_executable(f, command) ==
    IF command \notin ALLOWED_COMMANDS
    THEN [result |-> Raise("ValueError", "not in the allowed list"),
          trace |-> <<"allowlist">>]
    ELSE LET full_path == Which(f, SearchPath, command)
         IN IF ~full_path.found
            THEN [result |-> Raise("FileNotFoundError", "not found in PATH"),
                  trace |-> <<"allowlist", "which">>]
            ELSE [result |-> ReturnPath(full_path.path),
                  trace |-> <<"allowlist", "which">>]

\* extra keyword arguments of run, handed on to subprocess.run
NoKw == [has_shell |-> FALSE, shell |-> FALSE,
         has_executable |-> FALSE, executable |-> <<>>]

NoChild == [spawned |-> FALSE, program |-> <<>>, argv |-> <<>>,
            cwd |-> <<>>, shell |-> FALSE, exit |-> 0]

\* Variant of completed with a plausible defect: check is not handed on
completed_NoCheck(check, proc) == ReturnProc(proc)

\* what subprocess.run does with the finished child: check=True turns a
\* non-zero return code into CalledProcessError, which carries it
completed(check, proc) ==
    IF check /\ proc.returncode # 0
    THEN [Raise("CalledProcessError", "non-zero exit") EXCEPT !.proc = proc]
    ELSE ReturnProc(proc)

\* subprocess.run(secure_command, cwd=cwd, check=check, capture_output=...,
\*                text=text, shell=False, **kwargs); `exit` is the status the
\* child ends with, `tr` what run has done so far
subprocess_run(f, c, secure_command, cwd_arg, check, capture_output, kwargs, exit, tr) ==
    IF kwargs.has_shell
    THEN \* shell is given twice in the call
         [result |-> Raise("TypeError", "multiple values for shell"),
          child |-> NoChild, trace |-> tr]
    ELSE LET program == IF kwargs.has_executable THEN kwargs.executable
                        ELSE secure_command[1]
             dir == IF cwd_arg.given THEN Resolve(f, c, cwd_arg.path) ELSE c
         IN IF ~IsDir(f, dir)
            THEN [result |-> Raise(IF Exists(f, dir) THEN "NotADirectoryError"
                                   ELSE "FileNotFoundError", "chdir"),
                  child |-> NoChild, trace |-> tr]
            ELSE IF ~IsFile(f, OSLocate(f, program))
            THEN [result |-> Raise("FileNotFoundError", "exec"),
                  child |-> NoChild, trace |-> tr]
            ELSE [result |-> completed(check,
                                       [args |-> secure_command,
                                        returncode |-> exit,
                                        captured |-> capture_output]),
                  child |-> [spawned |-> TRUE,
                             program |-> OSLocate(f, program),
                             argv |-> secure_command,
                             cwd |-> dir,
                             shell |-> FALSE,
                             exit |-> exit],
                  trace |-> Append(tr, "spawn")]

\* Variant of validate_cwd with a plausible defect: cwd is not looked at
validate_cwd_NoCheck(f, c, cwd_arg) == ReturnNone

\* "Validate cwd if provided": the exception run raises for cwd, or "none"
validate_cwd(f, c, cwd_arg) ==
    LET cwd_path == Resolve(f, c, cwd_arg.path)
    IN IF ~cwd_arg.given THEN ReturnNone
       ELSE IF ~Exists(f, cwd_path)
            THEN Raise("FileNotFoundError", "working directory does not exist")
            ELSE IF ~IsDir(f, cwd_path)
                 THEN Raise("NotADirectoryError", "not a directory")
                 ELSE ReturnNone

\* run from "executable = command[0]" on, for a command that is not empty
run_command(f, c, command, cwd_arg, check, capture_output, kwargs, exit) ==
    LET executable == command[1]
        fe == find_executable(f, executable)
    IN IF fe.result.exc # "none"
       THEN [result |-> fe.result, child |-> NoChild, trace |-> fe.trace]
       ELSE LET full_path == fe.result.path
                secure_command == <<full_path>> \o Tail(command)
                vc == validate_cwd(f, c, cwd_arg)
                tr == IF cwd_arg.given THEN Append(fe.trace, "cwd")
                      ELSE fe.trace
            IN IF vc.exc # "none"
               THEN [result |-> vc, child |-> NoChild, trace |-> tr]
               ELSE subprocess_run(f, c, secure_command, cwd_arg, check,
                                   capture_output, kwargs, exit, tr)

\* Variant of run with a plausible defect: no test for the empty list, the
\* name looked up is then the empty string
run_NoEmptyCheck(f, c, command, cwd_arg, check, capture_output, kwargs, exit) ==
    IF command = <<>>
    THEN LET fe == find_executable(f, "")
         IN [result |-> fe.result, child |-> NoChild, trace |-> fe.trace]
    ELSE run_command(f, c, command, cwd_arg, check, capture_output, kwargs,
                     exit)

run(f, c, command, cwd_arg, check, capture_output, kwargs, exit) ==
    IF command = <<>>
    THEN [result |-> Raise("ValueError", "command list cannot be empty"),
          child |-> NoChild, trace |-> <<>>]
    ELSE run_command(f, c, command, cwd_arg, check, capture_output, kwargs,
                     exit)

(***************************************************************************)
(* Arguments the calls are made with.                                      *)
(***************************************************************************)
Comp == {"..", "lnk", "f"}

\* every path of at most two components, relative and absolute
PathParts ==
    {<<>>} \cup {<<a>> : a \in Comp} \cup {<<a, b>> : a \in Comp, b \in Comp}

PathInputs == [abs : BOOLEAN, parts : PathParts]

Dot == [abs |-> FALSE, parts |-> <<>>]

Chars == {"a", CR, LF}

\* the empty string, every one-character string, and "\r\n"
Contents == {<<>>} \cup {<<a>> : a \in Chars} \cup {<<CR, LF>>}

Modes == {"w", "a"}

\* git: allowed and on the search path; pip: allowed, not on the search path;
\* sh: on the search path, not allowed
Names == {"git", "pip", "sh"}

ArgLists == {<<>>, <<"-c", "$(id); ls">>}

Commands == {<<>>} \cup {<<n>> \o a : n \in Names, a \in ArgLists}

\* cwd=None, or a directory argument
NoCwd == [given |-> FALSE, path |-> Dot]

CwdArgs ==
    {NoCwd} \cup {[given |-> TRUE, path |-> [abs |-> FALSE, parts |-> p]] :
                     p \in {<<"..">>, <<"f">>, <<"lnk">>}}

KwInputs ==
    {NoKw,
     [NoKw EXCEPT !.has_shell = TRUE, !.shell = TRUE],
     [NoKw EXCEPT !.has_executable = TRUE, !.executable = <<"bin", "sh">>]}

ExitCodes == {0, 1, 2}

NoCall ==
    [op |-> "none", path |-> Dot, must_exist |-> FALSE, content |-> <<>>,
     mode |-> "", command |-> <<>>, cwd |-> NoCwd, check |-> FALSE,
     capture_output |-> FALSE, kwargs |-> NoKw]

(***************************************************************************)
(* The state machine: each step is one call of one function.               *)
(***************************************************************************)
Init ==
    /\ fs = InitialFs
    /\ cwd \in {<<"proj", "scripts">>, <<"out">>}
    /\ linesep \in {<<LF>>, <<CR, LF>>}
    /\ call = NoCall
    /\ result = ReturnNone
    /\ trace = <<>>
    /\ child = NoChild
    /\ touched = {}
    /\ ncalls = 0
    /\ pc = "idle"

\* a call is made while the caller is idle and has calls left
Calling ==
    /\ pc = "idle"
    /\ ncalls < MaxCalls
    /\ pc' = "returned"
    /\ ncalls' = ncalls + 1

FindExecutable ==
    /\ Calling
    /\ \E name \in Names :
        LET r == find_executable(fs, name)
        IN /\ call' = [NoCall EXCEPT !.op = "find_executable",
                                     !.command = <<name>>]
           /\ result' = r.result
           /\ trace' = r.trace
           /\ child' = NoChild
           /\ touched' = {}
           /\ UNCHANGED <<fs, cwd, linesep>>

Run ==
    /\ Calling
    /\ \E command \in Commands, cwd_arg \in CwdArgs, check \in BOOLEAN,
          capture_output \in BOOLEAN, kwargs \in KwInputs, exit \in ExitCodes :
        LET r == run(fs, cwd, command, cwd_arg, check, capture_output, kwargs,
                     exit)
        IN /\ call' = [NoCall EXCEPT !.op = "run", !.command = command,
                                     !.cwd = cwd_arg, !.check = check,
                                     !.capture_output = capture_output,
                                     !.kwargs = kwargs]
           /\ result' = r.result
           /\ trace' = r.trace
           /\ child' = r.child
           /\ touched' = {}
           /\ UNCHANGED <<fs, cwd, linesep>>

ValidateFilePath ==
    /\ Calling
    /\ \E path \in PathInputs, must_exist \in BOOLEAN :
        /\ call' = [NoCall EXCEPT !.op = "validate_file_path", !.path = path,
                                  !.must_exist = must_exist]
        /\ result' = validate_file_path(fs, cwd, path, must_exist)
        /\ trace' = <<"validate">>
        /\ child' = NoChild
        /\ touched' = {}
        /\ UNCHANGED <<fs, cwd, linesep>>

SafeFileWrite ==
    /\ Calling
    /\ \E path \in PathInputs, content \in Contents, mode \in Modes :
        LET r == safe_file_write(fs, cwd, linesep, path, content, mode)
        IN /\ call' = [NoCall EXCEPT !.op = "safe_file_write", !.path = path,
                                     !.content = content, !.mode = mode]
           /\ fs' = r.fs
           /\ result' = r.result
           /\ trace' = r.trace
           /\ child' = NoChild
           /\ touched' = r.touched
           /\ UNCHANGED <<cwd, linesep>>

SafeFileRead ==
    /\ Calling
    /\ \E path \in PathInputs :
        LET r == safe_file_read(fs, cwd, path)
        IN /\ call' = [NoCall EXCEPT !.op = "safe_file_read", !.path = path]
           /\ result' = r.result
           /\ trace' = r.trace
           /\ child' = NoChild
           /\ touched' = r.touched
           /\ UNCHANGED <<fs, cwd, linesep>>

\* the caller takes the result (or the exception) and is idle again
Return ==
    /\ pc = "returned"
    /\ pc' = "idle"
    /\ call' = NoCall
    /\ result' = ReturnNone
    /\ trace' = <<>>
    /\ child' = NoChild
    /\ touched' = {}
    /\ UNCHANGED <<fs, cwd, linesep, ncalls>>

Next ==
    \/ FindExecutable
    \/ Run
    \/ ValidateFilePath
    \/ SafeFileWrite
    \/ SafeFileRead
    \/ Return

Spec == Init /\ [][Next]_vars

(***************************************************************************)
(* Vocabulary of the properties.                                           *)
(***************************************************************************)
\* location p is root or lies below it
Within(p, root) == \E n \in 0..Len(p) : SubSeq(p, 1, n) = root

\* inside a permitted root: the working directory or the project root
Permitted(p) == Within(p, cwd) \/ Within(p, project_root)

Range(q) == {q[i] : i \in DOMAIN q}

\* the executables called `name` in the directories of the search path
OnSearchPath(name) ==
    {Append(SearchPath[i], name) : i \in DOMAIN SearchPath}
        \cap {p \in DOMAIN fs : fs[p].kind = "file"}

ShellPrograms == {<<"bin", "sh">>}

Returned(op) == pc = "returned" /\ call.op = op

\* the messages of the errors raised by the validation code itself
ValidationMessages ==
    {"command list cannot be empty", "not in the allowed list",
     "not found in PATH", "working directory does not exist",
     "not a directory", "outside the project directory",
     "path does not exist"}

(***************************************************************************)
(* C1: run spawns a child process only if the first token of the command   *)
(* is in ALLOWED_COMMANDS and resolved to an executable on the search      *)
(* path, and the program executed is that resolved executable, whatever    *)
(* the extra keyword arguments.                                            *)
(***************************************************************************)
C1_ExecutesResolvedAllowed ==
    (Returned("run") /\ child.spawned) =>
        /\ call.command # <<>>
        /\ call.command[1] \in ALLOWED_COMMANDS
        /\ child.program \in OnSearchPath(call.command[1])

(***************************************************************************)
(* C2: for an allowed, resolvable command run never invokes a shell, the   *)
(* child receives [resolved path] followed by command[1:] unchanged, and   *)
(* no extra keyword argument turns shell execution on.                     *)
(***************************************************************************)
C2_NoShellArgvVerbatim ==
    (Returned("run") /\ child.spawned) =>
        /\ ~child.shell
        /\ child.program \notin ShellPrograms
        /\ Len(child.argv) = Len(call.command)
        /\ child.argv[1] \in OnSearchPath(call.command[1])
        /\ Tail(child.argv) = Tail(call.command)

(***************************************************************************)
(* C3: a path whose canonical form is neither the working directory, the   *)
(* project root nor a descendant of one of them makes validate_file_path   *)
(* fail with the outside-project error, for both values of must_exist and  *)
(* whether or not the path exists.                                         *)
(***************************************************************************)
C3_OutsideIsRejected ==
    (Returned("validate_file_path")
        /\ ~Permitted(Resolve(fs, cwd, call.path))) =>
        /\ result.exc = "ValueError"
        /\ result.msg = "outside the project directory"

\* an existing directory outside both roots, reached through the link, is
\* rejected with must_exist=False
C3_Witness ==
    /\ Returned("validate_file_path")
    /\ ~call.must_exist
    /\ ~Permitted(Resolve(fs, cwd, call.path))
    /\ Exists(fs, Resolve(fs, cwd, call.path))
    /\ "lnk" \in Range(call.path.parts)
    /\ result.exc = "ValueError"

(***************************************************************************)
(* C4: whatever safe_file_write and safe_file_read are called with, every  *)
(* location that is created, changed or read lies inside a permitted root. *)
(***************************************************************************)
C4_EffectsStayInside ==
    [][/\ \A p \in touched' : Permitted(p)
       /\ \A p \in DOMAIN fs' :
              (p \notin DOMAIN fs \/ fs'[p] # fs[p]) => Permitted(p)
       /\ DOMAIN fs \subseteq DOMAIN fs']_vars

\* a write through ".." that stays in the project creates a file
C4_Witness ==
    /\ Returned("safe_file_write")
    /\ result.exc = "none"
    /\ call.path.parts # <<>>
    /\ Head(call.path.parts) = ".."
    /\ touched # {}

(***************************************************************************)
(* C5: a call rejected by validation has no side effects: no child process *)
(* is spawned, no directory or file is created or modified.                *)
(***************************************************************************)
C5_RejectedCallHasNoEffect ==
    [][(pc' = "returned" /\ result'.msg \in ValidationMessages) =>
          /\ fs' = fs
          /\ ~child'.spawned
          /\ "spawn" \notin Range(trace')
          /\ touched' = {}]_vars

\* a write to a path outside the roots whose parent does not exist
C5_Witness ==
    /\ Returned("safe_file_write")
    /\ result.msg = "outside the project directory"
    /\ ~Exists(fs, Parent(Resolve(fs, cwd, call.path)))

(***************************************************************************)
(* C6, as stated: a child process is never spawned with a working          *)
(* directory whose canonical location lies outside the permitted roots.    *)
(***************************************************************************)
C6_CwdInsidePermittedRoot ==
    (Returned("run") /\ call.cwd.given /\ child.spawned) =>
        Permitted(child.cwd)

(***************************************************************************)
(* C6, amended: a working directory given to run is validated only for     *)
(* being an existing directory: if it does not exist or is not a directory *)
(* run fails with its own error before a child is spawned, otherwise a     *)
(* child that is spawned runs in the directory the argument resolves to.   *)
(***************************************************************************)
C6_CwdIsExistingDirectory ==
    (/\ Returned("run")
     /\ call.cwd.given
     /\ call.command # <<>>
     /\ call.command[1] \in ALLOWED_COMMANDS
     /\ OnSearchPath(call.command[1]) # {}) =>
        LET dir == Resolve(fs, cwd, call.cwd.path)
        IN IF ~Exists(fs, dir)
           THEN /\ result.exc = "FileNotFoundError"
                /\ result.msg = "working directory does not exist"
                /\ ~child.spawned
           ELSE IF fs[dir].kind # "dir"
           THEN /\ result.exc = "NotADirectoryError"
                /\ result.msg = "not a directory"
                /\ ~child.spawned
           ELSE child.spawned => child.cwd = dir

\* a child runs in a directory outside both permitted roots
C6_Witness ==
    /\ Returned("run")
    /\ call.cwd.given
    /\ child.spawned
    /\ ~Permitted(child.cwd)

(***************************************************************************)
(* C7: after safe_file_write(path, content) with the default mode has      *)
(* succeeded, safe_file_read(path) returns exactly content.                *)
(***************************************************************************)
C7_RoundTrip ==
    (Returned("safe_file_write") /\ call.mode = "w" /\ result.exc = "none") =>
        LET r == safe_file_read(fs, cwd, call.path)
        IN /\ r.result.exc = "none"
           /\ r.result.text = call.content

(***************************************************************************)
(* C8: find_executable fails with the not-allowed error, without looking   *)
(* at the search path, for a name outside ALLOWED_COMMANDS; fails with the *)
(* not-found error for an allowed name with no executable on the search    *)
(* path; returns the path found otherwise, never an empty result.          *)
(***************************************************************************)
C8_FindExecutableOutcome ==
    Returned("find_executable") =>
        LET name == call.command[1]
        IN IF name \notin ALLOWED_COMMANDS
           THEN /\ result.exc = "ValueError"
                /\ result.msg = "not in the allowed list"
                /\ "which" \notin Range(trace)
           ELSE IF OnSearchPath(name) = {}
           THEN /\ result.exc = "FileNotFoundError"
                /\ result.msg = "not found in PATH"
           ELSE /\ result.exc = "none"
                /\ result.path \in OnSearchPath(name)
                /\ result.path # <<>>

\* a name that is on the search path but not allowed is refused
C8_Witness ==
    /\ Returned("find_executable")
    /\ call.command[1] \notin ALLOWED_COMMANDS
    /\ OnSearchPath(call.command[1]) # {}
    /\ result.exc = "ValueError"

(***************************************************************************)
(* C9: when the child exits with a non-zero status n, run with check=True  *)
(* fails with the command-failed error carrying n and run with check=False *)
(* returns the record with return code n; when the child exits with 0 run  *)
(* returns the record for both values of check.                            *)
(***************************************************************************)
C9_CheckDecidesOnExitCode ==
    (Returned("run") /\ child.spawned) =>
        /\ result.proc.returncode = child.exit
        /\ result.exc = IF call.check /\ child.exit # 0
                        THEN "CalledProcessError" ELSE "none"

\* a child that exits with 2 under check=False: the record is returned
C9_Witness ==
    /\ Returned("run")
    /\ child.spawned
    /\ child.exit = 2
    /\ ~call.check
    /\ result.exc = "none"
    /\ result.proc.returncode = 2

(***************************************************************************)
(* C10: with an empty command list run fails with the invalid-argument     *)
(* error before the allow-list, the search path or the working directory   *)
(* is looked at, whatever cwd, check and capture_output are.               *)
(***************************************************************************)
C10_EmptyCommandFailsFirst ==
    (Returned("run") /\ call.command = <<>>) =>
        /\ result.exc = "ValueError"
        /\ result.msg = "command list cannot be empty"
        /\ trace = <<>>
        /\ ~child.spawned

\* the empty command together with a working directory that does not exist
C10_Witness ==
    /\ Returned("run")
    /\ call.command = <<>>
    /\ call.cwd.given
    /\ ~Exists(fs, Resolve(fs, cwd, call.cwd.path))
    /\ result.exc = "ValueError"

====
